---- MODULE Spec2Model ----
(***************************************************************************)
(* The assistant bot of main.py: validated fields, Record, AddressBook,    *)
(* the weekly birthday scheduler and the command loop.                     *)
(*                                                                         *)
(* Strings are sequences of one-character strings, so that len(), split(), *)
(* lower(), isdigit() and strptime() are computed rather than assumed.     *)
(* A date is a record [year, month, day]; date arithmetic goes through the *)
(* proleptic Gregorian ordinal exactly as datetime.date does.              *)
(***************************************************************************)
EXTENDS Integers, Sequences, FiniteSets, TLC

VARIABLES
    book,        \* AddressBook.data: records in dict (insertion) order
    pc,          \* position of main(): "prompt", "dispatch", "done", "crashed"
    user_input,  \* main's `user_input` for the line being dispatched
    command,     \* main's `command` for the line being dispatched
    args,        \* main's `args` for the line being dispatched
    lastCmd,     \* the command of the line handled last
    out,         \* the print() calls made for the line handled last
    sched,       \* outcome of the last get_birthdays_per_week call
    replaced,    \* the record the last add_record dropped from the dict
    apiExc       \* exception raised by the last direct Record/AddressBook call

vars == <<book, pc, user_input, command, args, lastCmd, out, sched, replaced, apiExc>>

\* ------------------------------------------------------------------ bounds
\* today ranges over each anchor date and the MaxDayOffset days after it
MaxDayOffset == 2
\* direct add_phone calls stop once a record holds MaxPhones phones
MaxPhones == 2

\* ------------------------------------------------------------- characters
Digits == {"0", "1", "2", "3", "4", "5", "6", "7", "8", "9"}

DigitVal(c) ==
    CASE c = "0" -> 0 [] c = "1" -> 1 [] c = "2" -> 2 [] c = "3" -> 3
      [] c = "4" -> 4 [] c = "5" -> 5 [] c = "6" -> 6 [] c = "7" -> 7
      [] c = "8" -> 8 [] c = "9" -> 9

Whitespace == {" "}

\* str.isdigit(): non-empty and every character a digit
IsDigitStr(s) == Len(s) > 0 /\ \A i \in 1..Len(s) : s[i] \in Digits

\* int() of a digit string
RECURSIVE ToInt(_)
ToInt(s) ==
    IF s = <<>> THEN 0
    ELSE 10 * ToInt(SubSeq(s, 1, Len(s) - 1)) + DigitVal(s[Len(s)])

UpperToLower ==
    [c \in {"A", "B", "C", "D", "E", "I", "L", "N", "O", "S", "T", "X"} |->
        CASE c = "A" -> "a" [] c = "B" -> "b" [] c = "C" -> "c" [] c = "D" -> "d"
          [] c = "E" -> "e" [] c = "I" -> "i" [] c = "L" -> "l" [] c = "N" -> "n"
          [] c = "O" -> "o" [] c = "S" -> "s" [] c = "T" -> "t" [] c = "X" -> "x"]

\* str.lower(), over the letters the input lines use
Lower(s) ==
    [i \in 1..Len(s) |->
        IF s[i] \in DOMAIN UpperToLower THEN UpperToLower[s[i]] ELSE s[i]]

\* str.strip()
RECURSIVE Strip(_)
Strip(s) ==
    IF s = <<>> THEN s
    ELSE IF Head(s) \in Whitespace THEN Strip(Tail(s))
    ELSE IF s[Len(s)] \in Whitespace THEN Strip(SubSeq(s, 1, Len(s) - 1))
    ELSE s

\* str.split(): the maximal runs of non-whitespace characters
RECURSIVE SplitFrom(_, _, _)
SplitFrom(s, i, cur) ==
    IF i > Len(s) THEN (IF cur = <<>> THEN <<>> ELSE <<cur>>)
    ELSE IF s[i] \in Whitespace
         THEN (IF cur = <<>> THEN <<>> ELSE <<cur>>) \o SplitFrom(s, i + 1, <<>>)
         ELSE SplitFrom(s, i + 1, Append(cur, s[i]))

Split(s) == SplitFrom(s, 1, <<>>)

\* the fields of s between occurrences of the separator character c
RECURSIVE FieldsFrom(_, _, _, _)
FieldsFrom(s, c, i, cur) ==
    IF i > Len(s) THEN <<cur>>
    ELSE IF s[i] = c THEN <<cur>> \o FieldsFrom(s, c, i + 1, <<>>)
         ELSE FieldsFrom(s, c, i + 1, Append(cur, s[i]))

Fields(s, c) == FieldsFrom(s, c, 1, <<>>)

\* ------------------------------------------------------------------ dates
IsLeap(y) == y % 4 = 0 /\ (y % 100 # 0 \/ y % 400 = 0)

DaysInMonth(y, m) ==
    IF m = 2 THEN (IF IsLeap(y) THEN 29 ELSE 28)
    ELSE IF m \in {4, 6, 9, 11} THEN 30 ELSE 31

DaysBeforeYear(y) ==
    (y - 1) * 365 + (y - 1) \div 4 - (y - 1) \div 100 + (y - 1) \div 400

RECURSIVE DaysBeforeMonth(_, _)
DaysBeforeMonth(y, m) ==
    IF m = 1 THEN 0 ELSE DaysBeforeMonth(y, m - 1) + DaysInMonth(y, m - 1)

Date(y, m, d) == [year |-> y, month |-> m, day |-> d]

\* the checks of the date constructor
ValidDate(y, m, d) ==
    /\ y \in 1..9999
    /\ m \in 1..12
    /\ d >= 1
    /\ d <= DaysInMonth(y, m)

\* date.toordinal()
ToOrdinal(dt) ==
    DaysBeforeYear(dt.year) + DaysBeforeMonth(dt.year, dt.month) + dt.day

\* date.weekday(): Monday is 0, Sunday is 6
Weekday(dt) == (ToOrdinal(dt) + 6) % 7

\* date.__lt__
DateLt(a, b) == ToOrdinal(a) < ToOrdinal(b)

NextDay(dt) ==
    IF dt.day < DaysInMonth(dt.year, dt.month)
    THEN Date(dt.year, dt.month, dt.day + 1)
    ELSE IF dt.month < 12 THEN Date(dt.year, dt.month + 1, 1)
    ELSE Date(dt.year + 1, 1, 1)

PrevDay(dt) ==
    IF dt.day > 1 THEN Date(dt.year, dt.month, dt.day - 1)
    ELSE IF dt.month > 1
         THEN Date(dt.year, dt.month - 1, DaysInMonth(dt.year, dt.month - 1))
    ELSE Date(dt.year - 1, 12, 31)

\* date + timedelta(days=k)
RECURSIVE AddDays(_, _)
AddDays(dt, k) ==
    IF k = 0 THEN dt
    ELSE IF k > 0 THEN AddDays(NextDay(dt), k - 1)
    ELSE AddDays(PrevDay(dt), k + 1)

\* strftime("%A")
DayName(wd) ==
    CASE wd = 0 -> "Monday" [] wd = 1 -> "Tuesday" [] wd = 2 -> "Wednesday"
      [] wd = 3 -> "Thursday" [] wd = 4 -> "Friday" [] wd = 5 -> "Saturday"
      [] wd = 6 -> "Sunday"

\* ----------------------------------------------------------------- fields
\* Python's None
None == <<"None">>

\* no line handled yet
NoLine == <<"no line">>

\* None where a Record is expected
NoRecord == [name |-> None, phones |-> <<>>, birthday |-> None]

\* Name.__init__: `if not value` rejects the empty string
ValidName(value) == value # <<>>

\* Phone.validate_phone
validate_phone(value) == Len(value) = 10 /\ IsDigitStr(value)

NonZeroDigits == Digits \ {"0"}

\* strptime's %d: 3[0-1] | [1-2]\d | 0[1-9] | [1-9] | " "[1-9]
MatchDay(f) ==
    \/ /\ Len(f) = 2
       /\ \/ f[1] = "3" /\ f[2] \in {"0", "1"}
          \/ f[1] \in {"1", "2"} /\ f[2] \in Digits
          \/ f[1] \in {"0", " "} /\ f[2] \in NonZeroDigits
    \/ Len(f) = 1 /\ f[1] \in NonZeroDigits

\* strptime's %m: 1[0-2] | 0[1-9] | [1-9]
MatchMonth(f) ==
    \/ /\ Len(f) = 2
       /\ \/ f[1] = "1" /\ f[2] \in {"0", "1", "2"}
          \/ f[1] = "0" /\ f[2] \in NonZeroDigits
    \/ Len(f) = 1 /\ f[1] \in NonZeroDigits

\* strptime's %Y: \d\d\d\d
MatchYear(f) == Len(f) = 4 /\ IsDigitStr(f)

\* datetime.strptime(value, '%d.%m.%Y').date(): [ok, date]; ok is FALSE where
\* strptime raises ValueError (no match, or no such calendar date)
Strptime(value) ==
    LET f == Fields(value, ".")
    IN  IF Len(f) = 3 /\ MatchDay(f[1]) /\ MatchMonth(f[2]) /\ MatchYear(f[3])
        THEN LET d == ToInt(SelectSeq(f[1], LAMBDA c : c # " "))
                 m == ToInt(f[2])
                 y == ToInt(f[3])
             IN  IF ValidDate(y, m, d)
                 THEN [ok |-> TRUE, date |-> Date(y, m, d)]
                 ELSE [ok |-> FALSE, date |-> None]
        ELSE [ok |-> FALSE, date |-> None]

\* Birthday.validate_birthday
validate_birthday(value) == Strptime(value).ok

\* Birthday.to_datetime (followed by .date())
to_datetime(value) == Strptime(value)

\* ----------------------------------------------------------------- Record
\* A record is [name, phones, birthday]: the values of its Name, of its Phone
\* objects in list order, and of its Birthday (None when unset).  An operation
\* that can raise returns [exc, rec]: exc is "none" or the exception's class,
\* rec the record as the call leaves it.
Record(name) ==
    IF ValidName(name)
    THEN [exc |-> "none", rec |-> [name |-> name, phones |-> <<>>, birthday |-> None]]
    ELSE [exc |-> "ValueError", rec |-> NoRecord]

add_phone(rec, phone) ==
    IF validate_phone(phone)
    THEN [exc |-> "none", rec |-> [rec EXCEPT !.phones = Append(@, phone)]]
    ELSE [exc |-> "ValueError", rec |-> rec]

add_birthday(rec, birthday) ==
    IF validate_birthday(birthday)
    THEN [exc |-> "none", rec |-> [rec EXCEPT !.birthday = birthday]]
    ELSE [exc |-> "ValueError", rec |-> rec]

remove_phone(rec, phone) ==
    [rec EXCEPT !.phones = SelectSeq(@, LAMBDA p : p # phone)]

remove_phones(rec) == [rec EXCEPT !.phones = <<>>]

\* index of the first phone equal to `phone`, 0 when there is none
FirstPhone(rec, phone) ==
    IF \E i \in 1..Len(rec.phones) : rec.phones[i] = phone
    THEN CHOOSE i \in 1..Len(rec.phones) :
            /\ rec.phones[i] = phone
            /\ \A j \in 1..(i - 1) : rec.phones[j] # phone
    ELSE 0

\* assigns phone.value directly: no Phone is constructed, nothing is validated
edit_phone(rec, old_phone, new_phone) ==
    LET i == FirstPhone(rec, old_phone)
    IN  IF i = 0 THEN rec ELSE [rec EXCEPT !.phones[i] = new_phone]

find_phone(rec, phone) ==
    IF FirstPhone(rec, phone) = 0 THEN None ELSE rec.phones[FirstPhone(rec, phone)]

get_birthday(rec) == rec.birthday

\* ------------------------------------------------------------ AddressBook
\* position of the key `name` in the dict, 0 when absent
KeyIndex(data, name) ==
    IF \E i \in 1..Len(data) : data[i].name = name
    THEN CHOOSE i \in 1..Len(data) : data[i].name = name
    ELSE 0

Keys(data) == {data[i].name : i \in 1..Len(data)}

\* an add_record that updates the phones of an existing entry in place
add_record_merging(data, record) ==
    LET i == KeyIndex(data, record.name)
    IN  IF i = 0 THEN Append(data, record)
        ELSE [data EXCEPT ![i].phones = record.phones]

\* self.data[record.name.value] = record: an existing key keeps its position
add_record(data, record) ==
    LET i == KeyIndex(data, record.name)
    IN  IF i = 0 THEN Append(data, record) ELSE [data EXCEPT ![i] = record]

find(data, name) ==
    IF KeyIndex(data, name) = 0 THEN NoRecord ELSE data[KeyIndex(data, name)]

delete(data, name) == SelectSeq(data, LAMBDA r : r.name # name)

\* the dict after a method mutated, in place, the record find(name) returned
Mutated(data, name, rec) == [data EXCEPT ![KeyIndex(data, name)] = rec]

\* -------------------------------------------------------------- scheduler
\* date.replace(year=y): [ok, date]; ok is FALSE where it raises ValueError
ReplaceYear(dt, y) ==
    IF ValidDate(y, dt.month, dt.day)
    THEN [ok |-> TRUE, date |-> Date(y, dt.month, dt.day)]
    ELSE [ok |-> FALSE, date |-> None]

\* date.replace(day=d)
ReplaceDay(dt, d) ==
    IF ValidDate(dt.year, dt.month, d)
    THEN [ok |-> TRUE, date |-> Date(dt.year, dt.month, d)]
    ELSE [ok |-> FALSE, date |-> None]

\* a weekend shift that forgets the + 1
WeekendDeltaNoPlusOne(weekday) == 6 - weekday

\* delta_days = 6 - birthday_this_year.weekday() + 1
WeekendDelta(weekday) == 6 - weekday + 1

\* The loop body for one stored birthday is a chain of statements, each taking
\* and returning [exc, stmt, birthday, date]: exc is "none" or "ValueError",
\* stmt names the statement that raised, birthday is the parsed birthday and
\* date the value of birthday_this_year.
Failed(stmt) ==
    [exc |-> "ValueError", stmt |-> stmt, birthday |-> None, date |-> None]

\* birthday = birthday.to_datetime().date()
ParsedBirthday(parsed) ==
    IF parsed.ok
    THEN [exc |-> "none", stmt |-> "none", birthday |-> parsed.date, date |-> None]
    ELSE Failed("to_datetime")

\* birthday_this_year = birthday.replace(year=today.year)
ThisYear(c, today, r) ==
    IF c.exc # "none" THEN c
    ELSE IF r.ok THEN [c EXCEPT !.date = r.date]
    ELSE Failed("replace_year")

\* if birthday_this_year < today: ... .replace(year=today.year + 1)
RollForward(c, today) ==
    IF c.exc # "none" THEN c
    ELSE IF ~DateLt(c.date, today) THEN c
    ELSE IF ReplaceYear(c.date, today.year + 1).ok
    THEN [c EXCEPT !.date = ReplaceYear(c.date, today.year + 1).date]
    ELSE Failed("replace_next_year")

\* if birthday_this_year.weekday() > 4: ... .replace(day=birthday.day + delta_days)
WeekendShift(c, wd) ==
    IF c.exc # "none" THEN c
    ELSE IF ~(wd > 4) THEN c
    ELSE IF ReplaceDay(c.date, c.birthday.day + WeekendDelta(wd)).ok
    THEN [c EXCEPT !.date = ReplaceDay(c.date, c.birthday.day + WeekendDelta(wd)).date]
    ELSE Failed("replace_day")

Shifted(c) == WeekendShift(c, IF c.exc = "none" THEN Weekday(c.date) ELSE 0)

Rolled(c, today) ==
    RollForward(
        ThisYear(c, today,
                 IF c.exc = "none" THEN ReplaceYear(c.birthday, today.year)
                 ELSE [ok |-> FALSE, date |-> None]),
        today)

\* the loop body up to the weekend shift, for one stored birthday value
CandidateDate(value, today) ==
    Shifted(Rolled(ParsedBirthday(to_datetime(value)), today))

\* birthdays_by_day[day].append(name) on a defaultdict(list): the report is
\* the dict's items in insertion order, each <<day, names>>
AppendToDay(report, day, name) ==
    IF \E i \in 1..Len(report) : report[i][1] = day
    THEN LET i == CHOOSE i \in 1..Len(report) : report[i][1] = day
         IN  [report EXCEPT ![i] = <<day, Append(report[i][2], name)>>]
    ELSE Append(report, <<day, <<name>>>>)

NoSched ==
    [called |-> FALSE, today |-> None, exc |-> "none", stmt |-> "none",
     at |-> None, report |-> <<>>]

\* delta_days = (birthday_this_year - today).days; the `continue` when it is
\* 7 or more; else the append under (today + timedelta(delta_days)).strftime("%A")
Bucketed(report, name, delta_days, today) ==
    IF delta_days >= 7 THEN report
    ELSE AppendToDay(report, DayName(Weekday(AddDays(today, delta_days))), name)

\* the for loop from the i-th key on, the report so far being `report`
RECURSIVE BirthdaysFrom(_, _, _, _)
RECURSIVE BirthdaysStep(_, _, _, _, _)
BirthdaysStep(data, today, i, report, c) ==
    IF c.exc # "none"
    THEN [called |-> TRUE, today |-> today, exc |-> c.exc, stmt |-> c.stmt,
          at |-> data[i].name, report |-> <<>>]
    ELSE BirthdaysFrom(data, today, i + 1,
            Bucketed(report, data[i].name, ToOrdinal(c.date) - ToOrdinal(today), today))

BirthdaysFrom(data, today, i, report) ==
    IF i > Len(data)
    THEN [called |-> TRUE, today |-> today, exc |-> "none", stmt |-> "none",
          at |-> None, report |-> report]
    ELSE IF get_birthday(data[i]) = None
    THEN BirthdaysFrom(data, today, i + 1, report)
    ELSE BirthdaysStep(data, today, i, report,
                       CandidateDate(get_birthday(data[i]), today))

\* AddressBook.get_birthdays_per_week, today being datetime.today().date()
get_birthdays_per_week(data, today) == BirthdaysFrom(data, today, 1, <<>>)

\* ------------------------------------------------------- string literals
\* the command names main() compares `command` with
S_add == <<"a", "d", "d">>
S_change == <<"c", "h", "a", "n", "g", "e">>
S_phone == <<"p", "h", "o", "n", "e">>
S_all == <<"a", "l", "l">>
S_add_birthday == <<"a", "d", "d", "-", "b", "i", "r", "t", "h", "d", "a", "y">>
S_show_birthday == <<"s", "h", "o", "w", "-", "b", "i", "r", "t", "h", "d", "a", "y">>
S_birthdays == <<"b", "i", "r", "t", "h", "d", "a", "y", "s">>
S_hello == <<"h", "e", "l", "l", "o">>
S_close == <<"c", "l", "o", "s", "e">>
S_exit == <<"e", "x", "i", "t">>

\* ------------------------------------------------------- the input domain
\* what the user can type: command tokens in several cases, names, phone and
\* birthday values valid and invalid
T_EXIT == <<"E", "X", "I", "T">>
T_Close == <<"C", "l", "o", "s", "e">>
T_ADD == <<"A", "D", "D">>
T_bogus == <<"b", "o", "g", "u", "s">>

Ann == <<"A", "n", "n">>
Bob == <<"B", "o", "b">>

P1 == <<"1", "2", "3", "4", "5", "6", "7", "8", "9", "0">>
P2 == <<"0", "9", "8", "7", "6", "5", "4", "3", "2", "1">>
P_short == <<"1", "2", "3", "4", "5">>
P_letters == <<"1", "2", "3", "4", "5", "a", "b", "c", "d", "e">>

B_wed == <<"0", "5", ".", "0", "6", ".", "1", "9", "9", "0">>
B_sat == <<"0", "8", ".", "0", "6", ".", "1", "9", "9", "5">>
B_sun == <<"0", "2", ".", "0", "6", ".", "1", "9", "8", "0">>
B_monthend == <<"3", "1", ".", "0", "8", ".", "1", "9", "9", "0">>
B_leap == <<"2", "9", ".", "0", "2", ".", "2", "0", "0", "0">>
B_nodate == <<"3", "1", ".", "0", "2", ".", "2", "0", "2", "4">>
B_iso == <<"1", "9", "9", "0", "-", "0", "6", "-", "0", "5">>

NameInputs == {Ann, Bob}
PhoneInputs == {P1, P2, P_short, P_letters}
BirthdayInputs == {B_wed, B_sat, B_sun, B_monthend, B_leap, B_nodate, B_iso}

\* " ".join(tokens)
RECURSIVE Join(_)
Join(tokens) ==
    IF tokens = <<>> THEN <<>>
    ELSE IF Len(tokens) = 1 THEN tokens[1]
    ELSE tokens[1] \o <<" ">> \o Join(Tail(tokens))

\* argument lists of every arity from 0 to 3 over the values `vals`
ArgLists(vals) ==
    {<<>>} \cup {<<n>> : n \in NameInputs}
           \cup {<<n, v>> : n \in NameInputs, v \in vals}
           \cup {<<Ann, P1, P2>>}

InputLines ==
    {Join(<<c>> \o a) : c \in {S_add, S_change}, a \in ArgLists(PhoneInputs)}
    \cup {Join(<<S_add_birthday>> \o a) : a \in ArgLists(BirthdayInputs)}
    \cup {Join(<<c>> \o a) : c \in {S_phone, S_show_birthday}, a \in ArgLists({P1})}
    \cup {Join(<<c>> \o a) :
            c \in {S_all, S_birthdays, S_hello, S_close, S_exit, T_EXIT, T_Close, T_bogus},
            a \in {<<>>, <<Ann>>}}
    \cup {Join(<<T_ADD, Bob, P2>>)}
    \cup {<<>>, <<" ", " ">>, <<" ">> \o Join(<<S_add, Ann, P1>>) \o <<" ">>,
          S_phone \o <<" ", " ">> \o Bob}

Anchors == {Date(2024, 6, 3), Date(2024, 8, 26), Date(2025, 6, 2)}

\* the values datetime.today().date() takes
Todays == {AddDays(a, k) : a \in Anchors, k \in 0..MaxDayOffset}

\* --------------------------------------------------------------- handlers
\* something handed to print(): the kind of text and the values formatted in
Msg(kind, payload) == [kind |-> kind, payload |-> payload]

\* what print() shows for a handler that returned nothing
NoneMsg == Msg("None", <<>>)

\* A handler's outcome: exc is "none" or the class of the exception leaving
\* it, arg the exception's args[0], ret the value returned, book the dict as
\* the handler leaves it (what it mutated before raising stays mutated).
Return(ret, data) == [exc |-> "none", arg |-> None, ret |-> ret, book |-> data]

Raise(exc, arg, data) == [exc |-> exc, arg |-> arg, ret |-> NoneMsg, book |-> data]

\* a decorator whose except clauses leave out IndexError
input_error_no_IndexError(res) ==
    IF res.exc = "ValueError"
    THEN [res EXCEPT !.exc = "none", !.ret = Msg("Give me name and phone please.", <<>>)]
    ELSE IF res.exc = "KeyError"
    THEN [res EXCEPT !.exc = "none", !.ret = Msg("Contact not found.", res.arg)]
    ELSE res

\* input_error.inner, applied to the outcome of func(*args, **kwargs)
input_error(res) ==
    IF res.exc = "ValueError"
    THEN [res EXCEPT !.exc = "none", !.ret = Msg("Give me name and phone please.", <<>>)]
    ELSE IF res.exc = "KeyError"
    THEN [res EXCEPT !.exc = "none", !.ret = Msg("Contact not found.", res.arg)]
    ELSE IF res.exc = "IndexError"
    THEN [res EXCEPT !.exc = "none", !.ret = Msg("Invalid command format.", <<>>)]
    ELSE res

\* parse_input: the tuple it returns
parse_input(text) ==
    LET parts == Split(text)
    IN  IF parts = <<>> THEN <<None, <<>>>>
        ELSE <<Lower(Strip(Head(parts)))>> \o Tail(parts)

\* the body of add_contact; dropped is the record add_record overwrote
add_contact_func(a, data) ==
    IF Len(a) # 2 THEN Raise("ValueError", None, data) @@ [dropped |-> NoRecord]
    ELSE
    LET created == Record(a[1])
    IN  IF created.exc # "none"
        THEN Raise(created.exc, None, data) @@ [dropped |-> NoRecord]
        ELSE
        LET phoned == add_phone(created.rec, a[2])
        IN  IF phoned.exc # "none"
            THEN Raise(phoned.exc, None, data) @@ [dropped |-> NoRecord]
            ELSE Return(Msg("Contact added.", <<>>), add_record(data, phoned.rec))
                    @@ [dropped |-> find(data, a[1])]

add_contact(a, data) == input_error(add_contact_func(a, data))

\* the body of change_contact: remove_phones() has emptied the list by the
\* time add_phone validates new_phone
change_contact_func(a, data) ==
    IF Len(a) # 2 THEN Raise("ValueError", None, data)
    ELSE
    LET record == find(data, a[1])
    IN  IF record = NoRecord THEN Raise("KeyError", a[1], data)
        ELSE
        LET emptied == remove_phones(record)
            phoned == add_phone(emptied, a[2])
        IN  IF phoned.exc # "none"
            THEN Raise(phoned.exc, None, Mutated(data, a[1], emptied))
            ELSE Return(Msg("Contact updated.", <<>>), Mutated(data, a[1], phoned.rec))

change_contact(a, data) == input_error(change_contact_func(a, data))

show_phone_func(a, data) ==
    IF Len(a) # 1 THEN Raise("IndexError", None, data)
    ELSE
    LET record == find(data, a[1])
    IN  IF record = NoRecord THEN Raise("KeyError", a[1], data)
        ELSE IF record.phones = <<>> THEN Raise("IndexError", None, data)
        ELSE Return(Msg("phone", record.phones[1]), data)

show_phone(a, data) == input_error(show_phone_func(a, data))

show_all_func(data) ==
    IF data = <<>> THEN Return(Msg("No contacts found.", <<>>), data)
    ELSE IF \E i \in 1..Len(data) : data[i].phones = <<>>
    THEN Raise("IndexError", None, data)
    ELSE Return(Msg("all", [i \in 1..Len(data) |-> <<data[i].name, data[i].phones[1]>>]),
                data)

show_all(data) == input_error(show_all_func(data))

add_birthday_func(a, data) ==
    IF Len(a) # 2 THEN Raise("ValueError", None, data)
    ELSE
    LET record == find(data, a[1])
    IN  IF record = NoRecord THEN Raise("KeyError", a[1], data)
        ELSE
        LET set == add_birthday(record, a[2])
        IN  IF set.exc # "none" THEN Raise(set.exc, None, data)
            ELSE Return(Msg("Birthday added.", <<>>), Mutated(data, a[1], set.rec))

add_birthday_cmd(a, data) == input_error(add_birthday_func(a, data))

show_birthday_func(a, data) ==
    IF Len(a) # 1 THEN Raise("IndexError", None, data)
    ELSE
    LET record == find(data, a[1])
    IN  IF record = NoRecord THEN Raise("KeyError", a[1], data)
        ELSE IF get_birthday(record) = None
        THEN Return(Msg("Birthday is not set.", <<>>), data)
        ELSE Return(Msg("birthday", record.birthday), data)

show_birthday(a, data) == input_error(show_birthday_func(a, data))

\* what birthdays does with the outcome s of get_birthdays_per_week, the dict
\* being `data` after the call
BirthdaysOutcome(s, data) ==
    IF s.exc # "none"
    THEN Raise(s.exc, None, data) @@ [prints |-> <<>>, sched |-> s]
    ELSE IF s.report = <<>>
    THEN Return(NoneMsg, data)
            @@ [prints |-> <<Msg("No birthdays in the next week.", <<>>)>>, sched |-> s]
    ELSE Return(NoneMsg, data)
            @@ [prints |-> <<Msg("Birthdays in the next week:", <<>>)>>
                            \o [i \in 1..Len(s.report) |-> Msg("day", s.report[i])],
                sched |-> s]

\* a scheduler that takes each birthday out of its record as it reads it
birthdays_func_consuming(data, today) ==
    BirthdaysOutcome(get_birthdays_per_week(data, today),
                     [i \in 1..Len(data) |-> [data[i] EXCEPT !.birthday = None]])

\* the body of birthdays: it prints by itself and returns None; prints are
\* its print() calls, sched the outcome of get_birthdays_per_week
birthdays_func(data, today) ==
    BirthdaysOutcome(get_birthdays_per_week(data, today), data)

birthdays(data, today) == input_error(birthdays_func(data, today))

\* ------------------------------------------------------------------- main
Init ==
    /\ book = <<>>
    /\ pc = "prompt"
    /\ user_input = <<>>
    /\ command = None
    /\ args = <<>>
    /\ lastCmd = NoLine
    /\ out = <<Msg("Welcome to the assistant bot!", <<>>)>>
    /\ sched = NoSched
    /\ replaced = NoRecord
    /\ apiExc = "none"

\* parse_input over the input domain, tabulated
Parsed == [line \in InputLines |-> parse_input(line)]

\* user_input = input(...); command, *args = parse_input(user_input)
ReadLine ==
    /\ pc = "prompt"
    /\ \E line \in InputLines :
         LET parsed == Parsed[line]
         IN  /\ user_input' = line
             /\ command' = Head(parsed)
             /\ args' = Tail(parsed)
    /\ pc' = "dispatch"
    /\ lastCmd' = NoLine
    /\ out' = <<>>
    /\ sched' = NoSched
    /\ replaced' = NoRecord
    /\ UNCHANGED <<book, apiExc>>

\* One branch of the if/elif chain has run.  res is the handler's outcome and
\* printed the print() calls made if no exception left the handler; an
\* exception that leaves it leaves main() too.  user_input, command and args
\* are dead until the next line is read.
Handled(res, printed) ==
    /\ book' = res.book
    /\ pc' = IF res.exc = "none" THEN "prompt" ELSE "crashed"
    /\ out' = IF res.exc = "none" THEN printed ELSE <<>>
    /\ lastCmd' = command
    /\ user_input' = <<>>
    /\ command' = None
    /\ args' = <<>>
    /\ UNCHANGED apiExc

CmdAdd ==
    /\ pc = "dispatch"
    /\ command = S_add
    /\ LET res == add_contact(args, book)
       IN  /\ Handled(res, <<res.ret>>)
           /\ replaced' = res.dropped
    /\ UNCHANGED sched

CmdChange ==
    /\ pc = "dispatch"
    /\ command = S_change
    /\ LET res == change_contact(args, book)
       IN  Handled(res, <<res.ret>>)
    /\ UNCHANGED <<sched, replaced>>

CmdPhone ==
    /\ pc = "dispatch"
    /\ command = S_phone
    /\ LET res == show_phone(args, book)
       IN  Handled(res, <<res.ret>>)
    /\ UNCHANGED <<sched, replaced>>

CmdAll ==
    /\ pc = "dispatch"
    /\ command = S_all
    /\ LET res == show_all(book)
       IN  Handled(res, <<res.ret>>)
    /\ UNCHANGED <<sched, replaced>>

CmdAddBirthday ==
    /\ pc = "dispatch"
    /\ command = S_add_birthday
    /\ LET res == add_birthday_cmd(args, book)
       IN  Handled(res, <<res.ret>>)
    /\ UNCHANGED <<sched, replaced>>

CmdShowBirthday ==
    /\ pc = "dispatch"
    /\ command = S_show_birthday
    /\ LET res == show_birthday(args, book)
       IN  Handled(res, <<res.ret>>)
    /\ UNCHANGED <<sched, replaced>>

\* birthdays(book): main() does not print what the call returns
CmdBirthdays ==
    /\ pc = "dispatch"
    /\ command = S_birthdays
    /\ \E today \in Todays :
         LET res == birthdays(book, today)
         IN  /\ Handled(res, res.prints)
             /\ sched' = res.sched
    /\ UNCHANGED replaced

CmdHello ==
    /\ pc = "dispatch"
    /\ command = S_hello
    /\ Handled(Return(NoneMsg, book), <<Msg("How can I help you?", <<>>)>>)
    /\ UNCHANGED <<sched, replaced>>

CmdClose ==
    /\ pc = "dispatch"
    /\ command \in {S_close, S_exit}
    /\ pc' = "done"
    /\ out' = <<Msg("Good bye!", <<>>)>>
    /\ lastCmd' = command
    /\ user_input' = <<>>
    /\ command' = None
    /\ args' = <<>>
    /\ UNCHANGED <<book, sched, replaced, apiExc>>

CmdInvalid ==
    /\ pc = "dispatch"
    /\ command \notin {S_add, S_change, S_phone, S_all, S_add_birthday,
                       S_show_birthday, S_birthdays, S_hello, S_close, S_exit}
    /\ Handled(Return(NoneMsg, book), <<Msg("Invalid command.", <<>>)>>)
    /\ UNCHANGED <<sched, replaced>>

Next ==
    \/ ReadLine
    \/ CmdAdd
    \/ CmdChange
    \/ CmdPhone
    \/ CmdAll
    \/ CmdAddBirthday
    \/ CmdShowBirthday
    \/ CmdBirthdays
    \/ CmdHello
    \/ CmdClose
    \/ CmdInvalid

Spec == Init /\ [][Next]_vars

\* ------------------------------------------- Record and AddressBook, direct
\* The classes used as a library, without the command layer: each action is
\* one call (Record(name) together with the add_record that stores it; the
\* Record methods on the record find(name) returns).
loop == <<pc, user_input, command, args, lastCmd, out, sched, replaced>>

ApiNames == NameInputs \cup {<<>>}
ApiPhones == {P1, P2, P_short, P_letters}
ApiBirthdays == {B_wed, B_leap, B_nodate}

ApiRecord ==
    /\ \E name \in ApiNames :
         LET created == Record(name)
         IN  /\ apiExc' = created.exc
             /\ book' = IF created.exc = "none" THEN add_record(book, created.rec)
                        ELSE book
    /\ UNCHANGED loop

ApiAddPhone ==
    /\ \E name \in Keys(book), phone \in ApiPhones :
         /\ Len(find(book, name).phones) < MaxPhones
         /\ LET phoned == add_phone(find(book, name), phone)
            IN  /\ apiExc' = phoned.exc
                /\ book' = Mutated(book, name, phoned.rec)
    /\ UNCHANGED loop

ApiRemovePhone ==
    /\ \E name \in Keys(book), phone \in ApiPhones :
         book' = Mutated(book, name, remove_phone(find(book, name), phone))
    /\ apiExc' = "none"
    /\ UNCHANGED loop

ApiRemovePhones ==
    /\ \E name \in Keys(book) :
         book' = Mutated(book, name, remove_phones(find(book, name)))
    /\ apiExc' = "none"
    /\ UNCHANGED loop

ApiEditPhone ==
    /\ \E name \in Keys(book), old_phone \in ApiPhones, new_phone \in ApiPhones :
         book' = Mutated(book, name, edit_phone(find(book, name), old_phone, new_phone))
    /\ apiExc' = "none"
    /\ UNCHANGED loop

ApiAddBirthday ==
    /\ \E name \in Keys(book), birthday \in ApiBirthdays :
         LET set == add_birthday(find(book, name), birthday)
         IN  /\ apiExc' = set.exc
             /\ book' = Mutated(book, name, set.rec)
    /\ UNCHANGED loop

ApiDelete ==
    /\ \E name \in NameInputs : book' = delete(book, name)
    /\ apiExc' = "none"
    /\ UNCHANGED loop

NextApi ==
    \/ ApiRecord
    \/ ApiAddPhone
    \/ ApiRemovePhone
    \/ ApiRemovePhones
    \/ ApiEditPhone
    \/ ApiAddBirthday
    \/ ApiDelete

SpecApi == Init /\ [][NextApi]_vars

\* ================================================================== claims
\* What the claims call the candidate date, computed with whole-day date
\* arithmetic and independently of the scheduler's statements.

\* main() is back at the prompt after a `birthdays` line
AfterBirthdays == pc = "prompt" /\ lastCmd = S_birthdays /\ sched.called

HasBirthday(rec) == rec.birthday # None

BirthdayOf(rec) == Strptime(rec.birthday).date

\* the year of the next occurrence of the birthday, today included
TargetYear(b, today) ==
    IF ToOrdinal(Date(today.year, b.month, b.day)) < ToOrdinal(today)
    THEN today.year + 1 ELSE today.year

\* that occurrence exists in the calendar
HasOccurrence(b, today) ==
    /\ ValidDate(today.year, b.month, b.day)
    /\ ValidDate(TargetYear(b, today), b.month, b.day)

Occurrence(b, today) == Date(TargetYear(b, today), b.month, b.day)

FollowingMonday(dt) ==
    IF Weekday(dt) = 5 THEN AddDays(dt, 2)
    ELSE IF Weekday(dt) = 6 THEN AddDays(dt, 1)
    ELSE dt

\* days from today to the candidate date after the roll and the weekend shift
WindowDelta(b, today) ==
    ToOrdinal(FollowingMonday(Occurrence(b, today))) - ToOrdinal(today)

\* the places <<i, j>> of the report that hold `name`
Places(name) ==
    {p \in {<<i, j>> : i \in 1..Len(sched.report), j \in 1..Len(book)} :
        /\ p[2] <= Len(sched.report[p[1]][2])
        /\ sched.report[p[1]][2][p[2]] = name}

Reported(name) == Places(name) # {}

\* C1: after `birthdays`, a contact with a birthday is in the report if and
\* only if 0 <= delta_days < 7, delta_days counted from today to its candidate
\* date after the roll to next year and the weekend shift.
C1_ReportedIffInWindow ==
    AfterBirthdays =>
        \A i \in 1..Len(book) :
            (HasBirthday(book[i]) /\ HasOccurrence(BirthdayOf(book[i]), sched.today)) =>
                (Reported(book[i].name)
                    <=> /\ 0 <= WindowDelta(BirthdayOf(book[i]), sched.today)
                        /\ WindowDelta(BirthdayOf(book[i]), sched.today) < 7)

\* C2: for every contact whose candidate date is a Saturday or a Sunday, the
\* weekend shift completes and yields the following Monday, also at the end
\* of a month.
C2_WeekendShiftYieldsMonday ==
    AfterBirthdays =>
        \A i \in 1..Len(book) :
            (/\ HasBirthday(book[i])
             /\ HasOccurrence(BirthdayOf(book[i]), sched.today)
             /\ Weekday(Occurrence(BirthdayOf(book[i]), sched.today)) > 4) =>
                /\ ~(sched.at = book[i].name /\ sched.stmt = "replace_day")
                /\ CandidateDate(book[i].birthday, sched.today).exc = "none"
                /\ CandidateDate(book[i].birthday, sched.today).date
                     = FollowingMonday(Occurrence(BirthdayOf(book[i]), sched.today))

\* C3: with a stored 29 February birthday and a target year that is not a
\* leap year, building the candidate date does not raise; the scheduler
\* returns a report.
C3_LeapDayDoesNotRaise ==
    (/\ AfterBirthdays
     /\ \E i \in 1..Len(book) :
            /\ HasBirthday(book[i])
            /\ BirthdayOf(book[i]).month = 2
            /\ BirthdayOf(book[i]).day = 29
            /\ ~IsLeap(TargetYear(BirthdayOf(book[i]), sched.today)))
    => /\ sched.stmt \notin {"replace_year", "replace_next_year"}
       /\ sched.exc = "none"

\* the responses printed for the line handled last: the lines one handler
\* prints one after the other (the header and the days of the report) are one
\* response
Responses == IF Len(out) = 0 THEN 0 ELSE 1

\* C4: every input line produces exactly one textual response before the
\* next prompt, also when the handler ends in an error input_error catches.
C4_OneResponsePerLine ==
    (pc \in {"prompt", "done"} /\ lastCmd # NoLine) => Responses = 1

\* the command token of the line being dispatched, as typed
TypedCommand == IF Split(user_input) = <<>> THEN <<>> ELSE Head(Split(user_input))

\* C5: whatever line is dispatched, no exception escapes and the loop prompts
\* again; it ends only on a command token that is close or exit in any case.
C5_LoopEndsOnlyOnCloseOrExit ==
    [][/\ pc' # "crashed"
       /\ pc = "dispatch" => pc' \in {"prompt", "done"}
       /\ (pc # "done" /\ pc' = "done") =>
             /\ pc = "dispatch"
             /\ Lower(TypedCommand) \in {S_close, S_exit}]_vars

\* a lookup on a contact left without phones was answered and the loop is
\* at the prompt again
C5_Witness ==
    /\ pc = "prompt"
    /\ lastCmd = S_phone
    /\ Len(out) = 1
    /\ out[1].kind = "Invalid command format."
    /\ \E i \in 1..Len(book) : book[i].phones = <<>>

\* C6: every phone of every record in the store is a string of exactly 10
\* decimal digits, after any sequence of Record and AddressBook operations.
C6_PhonesAreTenDigits ==
    \A i \in 1..Len(book) :
        \A j \in 1..Len(book[i].phones) :
            /\ Len(book[i].phones[j]) = 10
            /\ \A k \in 1..Len(book[i].phones[j]) : book[i].phones[j][k] \in Digits

\* C7: after `add <name> <phone>` succeeds, find(name) is a record with the
\* phone list [phone] and no birthday, whatever the prior record held, and
\* every other entry of the store is as before.
C7_AddReplacesRecord ==
    [][(/\ pc = "dispatch"
        /\ command = S_add
        /\ Len(out') = 1
        /\ out'[1].kind = "Contact added.")
       => /\ Len(args) = 2
          /\ find(book', args[1])
               = [name |-> args[1], phones |-> <<args[2]>>, birthday |-> None]
          /\ \A n \in (Keys(book) \cup Keys(book')) \ {args[1]} :
                find(book', n) = find(book, n)]_vars

\* an add has overwritten a record that had a birthday and another phone,
\* next to a second contact
C7_Witness ==
    /\ pc = "prompt"
    /\ lastCmd = S_add
    /\ replaced # NoRecord
    /\ replaced.birthday # None
    /\ Len(book) = 2
    /\ find(book, replaced.name).phones # replaced.phones
    /\ find(book, replaced.name).birthday = None

\* C8: every name in the report appears exactly once, under the weekday name
\* of its candidate date after the roll and the weekend shift, and never
\* under Saturday or Sunday.
C8_BucketedOnceUnderWeekday ==
    (AfterBirthdays /\ sched.exc = "none") =>
        \A i \in 1..Len(sched.report) :
            /\ sched.report[i][1] \notin {"Saturday", "Sunday"}
            /\ \A j \in 1..Len(sched.report[i][2]) :
                 LET name == sched.report[i][2][j]
                 IN  /\ Cardinality(Places(name)) = 1
                     /\ HasBirthday(find(book, name))
                     /\ sched.report[i][1] =
                          DayName(Weekday(FollowingMonday(
                              Occurrence(BirthdayOf(find(book, name)), sched.today))))

\* a report with two buckets, one of them Monday holding a contact whose
\* birthday falls on the weekend
C8_Witness ==
    /\ AfterBirthdays
    /\ sched.exc = "none"
    /\ Len(sched.report) = 2
    /\ \E i \in 1..Len(sched.report) :
          /\ sched.report[i][1] = "Monday"
          /\ Weekday(Occurrence(BirthdayOf(find(book, sched.report[i][2][1])),
                                sched.today)) > 4

\* C9: the `birthdays` command leaves the store as it was, whether the
\* scheduler returns a report or raises.
C9_BirthdaysLeavesStore ==
    [][(pc = "dispatch" /\ command = S_birthdays) => book' = book]_vars

\* the scheduler raised on a store of two contacts
C9_Witness ==
    /\ AfterBirthdays
    /\ sched.exc = "ValueError"
    /\ Len(book) = 2
    /\ \E i \in 1..Len(book) : HasBirthday(book[i])

\* C10: a `change` that ends in an error leaves the store unchanged, so every
\* contact in the store keeps at least one phone.
C10_FailedChangeKeepsStore ==
    [][/\ (/\ pc = "dispatch"
           /\ command = S_change
           /\ Len(out') = 1
           /\ out'[1].kind # "Contact updated.") => book' = book
       /\ \A i \in 1..Len(book') : book'[i].phones # <<>>]_vars

====
